---- MODULE Spec2Model ----
(***************************************************************************)
(* A model of the bird tracking engine of src/app/detector.py and of the   *)
(* two request handlers of src/app/app.py that drive it.                   *)
(*                                                                         *)
(* Numbers: confidences and the IoU threshold are kept in hundredths       *)
(* (0.25 -> 25, 0.03 -> 3); an IoU is kept as the pair <<intersection,     *)
(* union>> and compared by cross multiplication, so no rounding is         *)
(* introduced.  Boxes are <<x1, y1, x2, y2>> with integer pixels; the      *)
(* boxes of the model have square areas, so that sqrt(w * h) is exact.     *)
(*                                                                         *)
(* Specifications:                                                         *)
(*   Spec          /process_frame requests on one video, one at a time     *)
(*   SpecChunk     the viewer stepping through the video, and chunk        *)
(*                 analyses of the same video                              *)
(*   SpecClassify  the detection classifier on one raw detection list      *)
(*   SpecConc      two server threads handling /process_frame requests     *)
(*   SpecDistance  the viewer on videos of growing birds, with the         *)
(*                 wingspan tables that wingspans.txt may give             *)
(*   SpecIou       calculate_iou on pairs of boxes                         *)
(*   SpecVideos    /process_frame requests on several videos, two of them  *)
(*                 files of the same name                                  *)
(*   SpecReport    one /analyze_video request and its report               *)
(*   SpecSwarm     the viewer on frames that show swarms                   *)
(***************************************************************************)
EXTENDS Integers, Sequences, FiniteSets, TLC

(***************************************************************************)
(* Configuration parameters, detector.py lines 9-21.                       *)
(***************************************************************************)
CODE_DETECTION_CONF_THRESHOLD == 25
TRACKING_IOU_THRESHOLD == 3
TRACKING_FRAMES_TO_LOOK_BACK == 5
MIN_BBOX_GEOMETRIC_MEAN == 10
N_SAME_FOR_SWARM == 4
N_BULK_FOR_SWARM == 8
SEAGULL_REF_BBOX_GEOMETRIC_MEAN_PIXELS == 42
SEAGULL_REF_DISTANCE_M == 40
\* num_frames=30 at the only call of analyze_video_chunk, app.py line 227
ANALYZE_NUM_FRAMES == 30

(***************************************************************************)
(* Bounds of the model.                                                    *)
(***************************************************************************)
\* frame requests handled by /process_frame in one run
MaxCalls == 3

\* Frame indices 0 .. TotalFrames - 1 can be read; the video is long enough
\* for a track to fall out of the look-back window.
TotalFrames == TRACKING_FRAMES_TO_LOOK_BACK + 2
Frames == 0 .. (TotalFrames - 1)

(***************************************************************************)
(* Small helpers.                                                          *)
(***************************************************************************)
Max(a, b) == IF a >= b THEN a ELSE b
Min(a, b) == IF a <= b THEN a ELSE b

MaxOfSet(S) == CHOOSE m \in S : \A x \in S : x <= m

\* the elements of a finite set of integers, ascending
RECURSIVE SortedSeq(_)
SortedSeq(S) ==
    IF S = {} THEN <<>>
    ELSE LET m == CHOOSE x \in S : \A y \in S : x <= y
         IN  <<m>> \o SortedSeq(S \ {m})

\* math.sqrt on the areas the model uses (all perfect squares)
Sqrt(n) == CHOOSE r \in 0 .. n : r * r = n

TheOne(S) == CHOOSE x \in S : TRUE

Range(s) == {s[k] : k \in DOMAIN s}

(***************************************************************************)
(* run_detection_on_frame: one raw detection as the detector returns it.   *)
(***************************************************************************)
RawDetection(cls, box, conf) ==
    [bbox |-> box, class |-> cls, confidence |-> conf,
     bbox_width_pixels |-> box[3] - box[1],
     bbox_height_pixels |-> box[4] - box[2]]

(***************************************************************************)
(* calculate_iou, as <<inter_area, union_area>>.                           *)
(***************************************************************************)
\* calculate_iou with the intersection not taken off the union
calculate_iou_sum_union(box1, box2) ==
    LET x_inter1 == Max(box1[1], box2[1])
        y_inter1 == Max(box1[2], box2[2])
        x_inter2 == Min(box1[3], box2[3])
        y_inter2 == Min(box1[4], box2[4])
        inter_area == Max(0, x_inter2 - x_inter1) * Max(0, y_inter2 - y_inter1)
        box1_area == (box1[3] - box1[1]) * (box1[4] - box1[2])
        box2_area == (box2[3] - box2[1]) * (box2[4] - box2[2])
        union_area == box1_area + box2_area
    IN  IF union_area > 0 THEN <<inter_area, union_area>> ELSE <<0, 1>>

\* lines 133-144
calculate_iou(box1, box2) ==
    LET x_inter1 == Max(box1[1], box2[1])
        y_inter1 == Max(box1[2], box2[2])
        x_inter2 == Min(box1[3], box2[3])
        y_inter2 == Min(box1[4], box2[4])
        inter_area == Max(0, x_inter2 - x_inter1) * Max(0, y_inter2 - y_inter1)
        box1_area == (box1[3] - box1[1]) * (box1[4] - box1[2])
        box2_area == (box2[3] - box2[1]) * (box2[4] - box2[2])
        union_area == box1_area + box2_area - inter_area
    IN  IF union_area > 0 THEN <<inter_area, union_area>> ELSE <<0, 1>>

\* iou1 > iou2, both with a positive denominator
IouGreater(iou1, iou2) == iou1[1] * iou2[2] > iou2[1] * iou1[2]

\* iou > TRACKING_IOU_THRESHOLD (0.03)
IouAboveThreshold(iou) == 100 * iou[1] > TRACKING_IOU_THRESHOLD * iou[2]

(***************************************************************************)
(* The detection classifier (swarm logic), detector.py lines 168-225.      *)
(* The code keeps the SAME detection objects in raw_detections_from_model, *)
(* base_detections, core_detections and swarm_candidates, and relabels     *)
(* them in place; the model therefore works with indices into the raw      *)
(* list and with the raw list as it is after the in-place writes.          *)
(***************************************************************************)
NoClass == ""

geometric_mean(det) ==
    IF det.bbox_width_pixels > 0 /\ det.bbox_height_pixels > 0
    THEN Sqrt(det.bbox_width_pixels * det.bbox_height_pixels)
    ELSE 0

\* lines 178-183: every raw detection gets its geometric_mean
WithGeometricMean(raw) ==
    [k \in DOMAIN raw |->
        [bbox |-> raw[k].bbox, class |-> raw[k].class,
         confidence |-> raw[k].confidence,
         geometric_mean |-> geometric_mean(raw[k])]]

\* line 186, on a detection that has its geometric_mean
IsCore(det) ==
    /\ det.geometric_mean >= MIN_BBOX_GEOMETRIC_MEAN
    /\ det.confidence >= CODE_DETECTION_CONF_THRESHOLD

\* line 171
InBase(det) == det.confidence >= CODE_DETECTION_CONF_THRESHOLD

\* the three lists of lines 171-192, as indices into the raw list
base_detections(dets) == SortedSeq({k \in DOMAIN dets : InBase(dets[k])})
core_detections(dets) == SortedSeq({k \in DOMAIN dets : IsCore(dets[k])})
swarm_candidates(dets) == SortedSeq({k \in DOMAIN dets : ~IsCore(dets[k])})

\* core_detection_counts_by_type[cls], 0 when cls is no key
CoreCount(dets, cls) ==
    Cardinality({k \in DOMAIN dets : IsCore(dets[k]) /\ dets[k].class = cls})

\* the keys of core_detection_counts_by_type in insertion order
RECURSIVE CoreTypesFrom(_, _, _)
CoreTypesFrom(dets, k, keys) ==
    IF k > Len(dets) THEN keys
    ELSE IF IsCore(dets[k]) /\ dets[k].class \notin Range(keys)
         THEN CoreTypesFrom(dets, k + 1, Append(keys, dets[k].class))
         ELSE CoreTypesFrom(dets, k + 1, keys)

CoreTypes(dets) == CoreTypesFrom(dets, 1, <<>>)

\* the bulk test with > for >=
BulkQualifiesAboveOnly(dets, cls) ==
    CoreCount(dets, cls) > N_BULK_FOR_SWARM /\ cls # "unknown_bird"

\* line 199
BulkQualifies(dets, cls) ==
    CoreCount(dets, cls) >= N_BULK_FOR_SWARM /\ cls # "unknown_bird"

\* line 216
NormalQualifies(dets, cls) == CoreCount(dets, cls) >= N_SAME_FOR_SWARM

\* lines 197-202: the first key that meets the bulk threshold
RECURSIVE FirstBulk(_, _, _)
FirstBulk(dets, keys, k) ==
    IF k > Len(keys) THEN NoClass
    ELSE IF BulkQualifies(dets, keys[k]) THEN keys[k]
         ELSE FirstBulk(dets, keys, k + 1)

\* lines 215-218: the first key that meets the normal threshold
RECURSIVE FirstNormal(_, _, _)
FirstNormal(dets, keys, k) ==
    IF k > Len(keys) THEN NoClass
    ELSE IF NormalQualifies(dets, keys[k]) THEN keys[k]
         ELSE FirstNormal(dets, keys, k + 1)

bulk_swarm_class(dets) == FirstBulk(dets, CoreTypes(dets), 1)
normal_swarm_class(dets) == FirstNormal(dets, CoreTypes(dets), 1)

\* The detection objects after the in-place relabelling of lines 207-208
\* (bulk: all of them) or 223-224 (normal: the swarm candidates).
Relabelled(dets, bulk, normal) ==
    IF bulk # NoClass
    THEN [k \in DOMAIN dets |-> [dets[k] EXCEPT !.class = bulk]]
    ELSE IF normal # NoClass
         THEN [k \in DOMAIN dets |->
                 IF IsCore(dets[k]) THEN dets[k]
                 ELSE [dets[k] EXCEPT !.class = normal]]
         ELSE dets

\* detections_for_tracking as indices into the raw list, lines 209-225
TrackedIdx(dets, bulk, normal) ==
    IF bulk # NoClass
    THEN SortedSeq(DOMAIN dets)
    ELSE IF normal # NoClass
         THEN base_detections(dets) \o swarm_candidates(dets)
         ELSE base_detections(dets)

\* the classifier: [list |-> detections_for_tracking, src |-> the index in
\* the raw list of each of its entries]
Classify(raw) ==
    LET dets == WithGeometricMean(raw)
        bulk == bulk_swarm_class(dets)
        normal == IF bulk # NoClass THEN NoClass ELSE normal_swarm_class(dets)
        idx == TrackedIdx(dets, bulk, normal)
        objs == Relabelled(dets, bulk, normal)
    IN  [list |-> [k \in DOMAIN idx |-> objs[idx[k]]], src |-> idx,
         bulk |-> bulk, normal |-> normal]

(***************************************************************************)
(* The track store: a Python dict from identity to track.  A new key is    *)
(* always max(keys) + 1, so insertion order (the order in which the code   *)
(* iterates the dict) is ascending identity.                               *)
(***************************************************************************)
EmptyStore == <<>>
None == <<>>

Put(st, id, info) ==
    [i \in (DOMAIN st) \cup {id} |-> IF i = id THEN info ELSE st[i]]

Remove(st, ids) == [i \in (DOMAIN st) \ ids |-> st[i]]

\* Eligible with the look-back bound excluded (> for >=)
EligibleInsideWindowOnly(tracked_info, current_det, frame_index) ==
    /\ tracked_info.class = current_det.class
    /\ tracked_info.last_visible_frame
          > frame_index - TRACKING_FRAMES_TO_LOOK_BACK

\* lines 237-238: the tracks a detection may be matched to
Eligible(tracked_info, current_det, frame_index) ==
    /\ tracked_info.class = current_det.class
    /\ tracked_info.last_visible_frame
          >= frame_index - TRACKING_FRAMES_TO_LOOK_BACK

\* lines 234-242: the inner loop over tracking_state.items()
RECURSIVE BestMatchLoop(_, _, _, _, _, _, _)
BestMatchLoop(st, ids, k, current_det, frame_index, best_match_id, best_match_iou) ==
    IF k > Len(ids) THEN best_match_id
    ELSE LET tracked_info == st[ids[k]]
             iou == calculate_iou(current_det.bbox, tracked_info.bbox)
         IN  IF /\ Eligible(tracked_info, current_det, frame_index)
                /\ IouGreater(iou, best_match_iou)
                /\ IouAboveThreshold(iou)
             THEN BestMatchLoop(st, ids, k + 1, current_det, frame_index,
                                ids[k], iou)
             ELSE BestMatchLoop(st, ids, k + 1, current_det, frame_index,
                                best_match_id, best_match_iou)

\* 0 stands for best_match_id = None
best_match(st, current_det, frame_index) ==
    BestMatchLoop(st, SortedSeq(DOMAIN st), 1, current_det, frame_index,
                  0, <<0, 1>>)

\* updated_info with the streak test on the wrong frame (no - 1)
updated_info_same_frame(info, current_det, frame_index) ==
    [info EXCEPT
        !.visibility_count =
            IF info.last_visible_frame = frame_index THEN @ + 1 ELSE 1,
        !.bbox = current_det.bbox,
        !.confidence = current_det.confidence,
        !.last_visible_frame = frame_index,
        !.is_visible = TRUE,
        !.max_bbox_geometric_mean = Max(@, current_det.geometric_mean),
        !.bbox_size_history = Append(@, current_det.geometric_mean)]

\* lines 247-269: the matched track's new info
updated_info(info, current_det, frame_index) ==
    [info EXCEPT
        !.visibility_count =
            IF info.last_visible_frame = frame_index - 1 THEN @ + 1 ELSE 1,
        !.bbox = current_det.bbox,
        !.confidence = current_det.confidence,
        !.last_visible_frame = frame_index,
        !.is_visible = TRUE,
        !.max_bbox_geometric_mean = Max(@, current_det.geometric_mean),
        !.bbox_size_history = Append(@, current_det.geometric_mean)]

\* new_info that leaves the maximum at the default of line 262
new_info_maximum_unset(new_id, current_det, frame_index) ==
    [id |-> new_id,
     class |-> current_det.class,
     bbox |-> current_det.bbox,
     confidence |-> current_det.confidence,
     bbox_size_history |-> <<current_det.geometric_mean>>,
     visibility_count |-> 1,
     last_visible_frame |-> frame_index,
     max_bbox_geometric_mean |-> 0,
     is_visible |-> TRUE,
     distance_m |-> None]

\* lines 279-289
new_info(new_id, current_det, frame_index) ==
    [id |-> new_id,
     class |-> current_det.class,
     bbox |-> current_det.bbox,
     confidence |-> current_det.confidence,
     bbox_size_history |-> <<current_det.geometric_mean>>,
     visibility_count |-> 1,
     last_visible_frame |-> frame_index,
     max_bbox_geometric_mean |-> current_det.geometric_mean,
     is_visible |-> TRUE,
     distance_m |-> None]

\* lines 233-271: the matching loop.  acc.state is tracking_state, acc.match
\* the identity matched per detection (0: none), acc.gap the frames since
\* the matched track was last seen, acc.updates the keys of
\* current_frame_tracking_updates in insertion order.
RECURSIVE MatchLoop(_, _, _, _)
MatchLoop(dets, k, frame_index, acc) ==
    IF k > Len(dets) THEN acc
    ELSE LET id == best_match(acc.state, dets[k], frame_index)
         IN  IF id = 0
             THEN MatchLoop(dets, k + 1, frame_index,
                     [acc EXCEPT !.match = Append(@, 0),
                                 !.gap = Append(@, 0)])
             ELSE MatchLoop(dets, k + 1, frame_index,
                     [acc EXCEPT
                         !.state = Put(@, id,
                                       updated_info(@[id], dets[k], frame_index)),
                         !.match = Append(@, id),
                         !.gap = Append(@, frame_index
                                           - acc.state[id].last_visible_frame),
                         !.updates = IF id \in Range(@) THEN @
                                     ELSE Append(@, id)])

\* lines 274-275
next_id(st) ==
    IF DOMAIN st = {} THEN 1 ELSE MaxOfSet((DOMAIN st) \cup {0}) + 1

\* lines 276-292: a new track for every detection that was not matched
RECURSIVE NewLoop(_, _, _, _, _)
NewLoop(dets, k, frame_index, nid, acc) ==
    IF k > Len(dets) THEN acc
    ELSE IF acc.match[k] # 0
         THEN NewLoop(dets, k + 1, frame_index, nid, acc)
         ELSE NewLoop(dets, k + 1, frame_index, nid + 1,
                 [acc EXCEPT
                     !.state = Put(@, nid, new_info(nid, dets[k], frame_index)),
                     !.updates = Append(@, nid),
                     !.created = Append(@, nid)])

\* line 299
Expired(tracked_info, frame_index) ==
    frame_index - tracked_info.last_visible_frame > TRACKING_FRAMES_TO_LOOK_BACK

\* lines 295-300
ids_to_remove(st, updates, frame_index) ==
    {i \in DOMAIN st : i \notin Range(updates) /\ Expired(st[i], frame_index)}

\* Evict without line 298: the flag of an untouched track is left as it was
EvictKeepingFlags(st, updates, frame_index) ==
    Remove(st, ids_to_remove(st, updates, frame_index))

\* lines 294-304: untouched tracks lose is_visible, expired ones are deleted
Evict(st, updates, frame_index) ==
    LET marked == [i \in DOMAIN st |->
                      IF i \in Range(updates) THEN st[i]
                      ELSE [st[i] EXCEPT !.is_visible = FALSE]]
    IN  Remove(marked, ids_to_remove(st, updates, frame_index))

(***************************************************************************)
(* Distance estimation, lines 311-330.  The wingspan table maps a class    *)
(* to centimetres (the code divides every entry by 100, which cancels in   *)
(* the ratio); a distance is the pair <<numerator, denominator>> of        *)
(* (wingspan / reference wingspan) * (42 / max size) * 40.                 *)
(***************************************************************************)
perform_distance_estimation(wingspans) ==
    /\ DOMAIN wingspans # {}
    /\ "seagull" \in DOMAIN wingspans
    /\ SEAGULL_REF_BBOX_GEOMETRIC_MEAN_PIXELS > 0
    /\ wingspans["seagull"] > 0

\* estimated_distance_m with the size ratio upside down (max / 42)
estimated_distance_m_inverted(wingspans, det_info) ==
    <<wingspans[det_info.class] * det_info.max_bbox_geometric_mean
         * SEAGULL_REF_DISTANCE_M,
      wingspans["seagull"] * SEAGULL_REF_BBOX_GEOMETRIC_MEAN_PIXELS>>

\* lines 327-329
estimated_distance_m(wingspans, det_info) ==
    <<wingspans[det_info.class] * SEAGULL_REF_BBOX_GEOMETRIC_MEAN_PIXELS
         * SEAGULL_REF_DISTANCE_M,
      wingspans["seagull"] * det_info.max_bbox_geometric_mean>>

\* WithDistance that takes the seagull's wingspan for a class that is
\* not in the table and does not look at the size
WithDistanceForAnyClass(wingspans, det_info) ==
    IF perform_distance_estimation(wingspans)
    THEN [det_info EXCEPT !.distance_m =
            <<(IF det_info.class \in DOMAIN wingspans
               THEN wingspans[det_info.class] ELSE wingspans["seagull"])
                 * SEAGULL_REF_BBOX_GEOMETRIC_MEAN_PIXELS * SEAGULL_REF_DISTANCE_M,
              wingspans["seagull"] * Max(1, det_info.max_bbox_geometric_mean)>>]
    ELSE det_info

\* lines 320-330, for one entry of detections_for_annotation
WithDistance(wingspans, det_info) ==
    IF /\ perform_distance_estimation(wingspans)
       /\ det_info.class \in DOMAIN wingspans
       /\ det_info.max_bbox_geometric_mean > 0
       /\ wingspans[det_info.class] > 0
    THEN [det_info EXCEPT !.distance_m = estimated_distance_m(wingspans, det_info)]
    ELSE det_info

\* lines 307-309: the keys of the entries that are annotated
detections_for_annotation(st, updates) ==
    SortedSeq({k \in DOMAIN updates : st[updates[k]].is_visible})

\* the infos of detections_for_annotation are the objects of the store, so
\* the distance written at line 330 is written to the stored track
EstimateDistances(st, updates, wingspans) ==
    LET ann == {updates[k] : k \in Range(detections_for_annotation(st, updates))}
    IN  [i \in DOMAIN st |->
            IF i \in ann THEN WithDistance(wingspans, st[i]) ELSE st[i]]

\* frontend_detections made from every track of the store
frontend_detections_whole_store(st, updates) ==
    LET ids == SortedSeq(DOMAIN st)
    IN  [k \in DOMAIN ids |->
            LET det == st[ids[k]]
            IN  [class |-> det.class,
                 confidence |-> det.confidence,
                 tracked_id |-> det.id,
                 distance_m |-> det.distance_m,
                 visibility_count |-> det.visibility_count,
                 box |-> det.bbox]]

\* lines 339-348
frontend_detections(st, updates) ==
    LET ann == detections_for_annotation(st, updates)
    IN  [k \in DOMAIN ann |->
            LET det == st[updates[ann[k]]]
            IN  [class |-> det.class,
                 confidence |-> det.confidence,
                 tracked_id |-> det.id,
                 distance_m |-> det.distance_m,
                 visibility_count |-> det.visibility_count,
                 box |-> det.bbox]]

(***************************************************************************)
(* run_detection_on_frame, lines 77-96: an exception of the detector is    *)
(* caught and an empty list is returned.                                   *)
(***************************************************************************)
run_detection_on_frame(raw, raises) == IF raises THEN <<>> ELSE raw

(***************************************************************************)
(* process_video_frame_with_tracking, lines 146-350.  fault is what the    *)
(* video file does: "open" (cannot be opened), "read" (the frame cannot be *)
(* read) or "none".  The result holds the returned error, the returned     *)
(* detection list and the tracking state object after the call, with the   *)
(* locals of the call that the properties speak about.                     *)
(***************************************************************************)
NoError == ""

\* Failure handing back a new empty store
FailureWithEmptyStore(tracking_state, message) ==
    [error |-> message, detections |-> <<>>, state |-> EmptyStore,
     tracked |-> <<>>, src |-> <<>>, match |-> <<>>, gap |-> <<>>,
     created |-> <<>>, removed |-> {}]

\* lines 151-163: the early returns
Failure(tracking_state, message) ==
    [error |-> message, detections |-> <<>>, state |-> tracking_state,
     tracked |-> <<>>, src |-> <<>>, match |-> <<>>, gap |-> <<>>,
     created |-> <<>>, removed |-> {}]

ReadableFrame(frame_index, fault) ==
    fault = "none" /\ frame_index \in Frames

process_video_frame_with_tracking(model, fault, frame_index, raw, raises, wingspans, tracking_state) ==
    IF ~model THEN Failure(tracking_state, "Model is not loaded.")
    ELSE IF fault = "open"
    THEN Failure(tracking_state, "Could not open video file.")
    ELSE IF ~ReadableFrame(frame_index, fault)
    THEN Failure(tracking_state, "Could not read frame.")
    ELSE
      LET raw_detections_from_model == run_detection_on_frame(raw, raises)
          classified == Classify(raw_detections_from_model)
          dets == classified.list
          matched == MatchLoop(dets, 1, frame_index,
                        [state |-> tracking_state, match |-> <<>>,
                         gap |-> <<>>, updates |-> <<>>, created |-> <<>>])
          added == NewLoop(dets, 1, frame_index, next_id(matched.state), matched)
          removed == ids_to_remove(added.state, added.updates, frame_index)
          evicted == Evict(added.state, added.updates, frame_index)
          final == EstimateDistances(evicted, added.updates, wingspans)
      IN  [error |-> NoError,
           detections |-> frontend_detections(final, added.updates),
           state |-> final,
           tracked |-> dets,
           src |-> classified.src,
           match |-> added.match,
           gap |-> added.gap,
           created |-> added.created,
           removed |-> removed]

(***************************************************************************)
(* analyze_video_chunk, lines 352-387.  process_video_frame_with_tracking  *)
(* changes the dict it is given in place, so which object the loop works   *)
(* on matters: heap.initial is the object passed as                        *)
(* initial_tracking_state, heap.local the object made by copy.deepcopy,    *)
(* and ref names the object local_tracking_state is bound to.              *)
(* script[f + 1] is what frame f gives: [raw, raises, fault].              *)
(***************************************************************************)
\* local_tracking_state = initial_tracking_state (no copy)
AliasInsteadOfCopy(heap) == [heap |-> heap, ref |-> "initial"]

\* line 371
DeepCopy(heap) ==
    [heap |-> [heap EXCEPT !.local = heap.initial], ref |-> "local"]

\* lines 383-385
RECURSIVE CountClasses(_, _, _)
CountClasses(frame_detections, k, aggregated) ==
    IF k > Len(frame_detections) THEN aggregated
    ELSE LET bird_class == frame_detections[k].class
             n == IF bird_class \in DOMAIN aggregated
                  THEN aggregated[bird_class] ELSE 0
         IN  CountClasses(frame_detections, k + 1,
                [c \in (DOMAIN aggregated) \cup {bird_class} |->
                    IF c = bird_class THEN n + 1 ELSE aggregated[c]])

\* lines 376-385: one turn of the loop
ChunkStep(frame_index, model, script, wingspans, acc) ==
    TheOne({ IF res.error # NoError
             THEN [acc EXCEPT !.skipped = Append(@, frame_index)]
             ELSE [acc EXCEPT
                      !.heap = [@ EXCEPT ![acc.ref] = res.state],
                      !.processed = Append(@, frame_index),
                      !.aggregated = CountClasses(res.detections, 1, @)] :
             res \in {process_video_frame_with_tracking(model,
                         script[frame_index + 1].fault, frame_index,
                         script[frame_index + 1].raw,
                         script[frame_index + 1].raises, wingspans,
                         acc.heap[acc.ref])} })

\* line 375: the loop over range(start_frame, end_frame)
RECURSIVE ChunkLoop(_, _, _, _, _, _)
ChunkLoop(frame_index, end_frame, model, script, wingspans, acc) ==
    IF frame_index >= end_frame THEN acc
    ELSE TheOne({ ChunkLoop(frame_index + 1, end_frame, model, script,
                            wingspans, next) :
                  next \in {ChunkStep(frame_index, model, script, wingspans,
                                      acc)} })

NoAggregate == <<>>

analyze_video_chunk(openable, start_frame, num_frames, model, script, wingspans, initial_tracking_state) ==
    LET heap0 == [initial |-> initial_tracking_state, local |-> EmptyStore]
        start == [heap |-> heap0, ref |-> "initial", error |-> NoError,
                  processed |-> <<>>, skipped |-> <<>>,
                  aggregated |-> NoAggregate]
    IN  IF ~model THEN [start EXCEPT !.error = "Model not loaded"]
        ELSE IF ~openable
        THEN [start EXCEPT !.error = "Could not open video file."]
        ELSE LET end_frame == Min(start_frame + num_frames, TotalFrames)
                 copied == DeepCopy(heap0)
             IN  ChunkLoop(start_frame, end_frame, model, script, wingspans,
                     [start EXCEPT !.heap = copied.heap, !.ref = copied.ref])

(***************************************************************************)
(* /analyze_video, the loop that makes the report (app.py lines 233-306).  *)
(* analysis_model.track gives, for a frame, the identities its tracker     *)
(* follows in that frame, each with the class of its detection there: a    *)
(* list of <<track_id, class_name>> with distinct identities (empty when   *)
(* boxes.id is None).                                                      *)
(***************************************************************************)
\* lines 262-266
NewClassData ==
    [all_ids |-> {}, longest_tracking |-> [track_id |-> 0, frames |-> 0],
     current_streaks |-> <<>>]

\* lines 257-277: one (track_id, class_id) of the frame
SeeTrack(analysis_results, track_id, class_name) ==
    LET class_data == IF class_name \in DOMAIN analysis_results
                      THEN analysis_results[class_name]
                      ELSE NewClassData
        streak == (IF track_id \in DOMAIN class_data.current_streaks
                   THEN class_data.current_streaks[track_id]
                   ELSE 0) + 1
    IN  Put(analysis_results, class_name,
            [all_ids |-> class_data.all_ids \cup {track_id},
             longest_tracking |->
                 IF streak > class_data.longest_tracking.frames
                 THEN [track_id |-> track_id, frames |-> streak]
                 ELSE class_data.longest_tracking,
             current_streaks |->
                 Put(class_data.current_streaks, track_id, streak)])

\* line 256: the loop over zip(boxes, track_ids, class_ids)
RECURSIVE SeeTracks(_, _, _)
SeeTracks(results, i, analysis_results) ==
    IF i > Len(results) THEN analysis_results
    ELSE TheOne({ SeeTracks(results, i + 1, next) :
                  next \in {SeeTrack(analysis_results, results[i][1],
                                     results[i][2])} })

\* lines 248, 258
current_frame_track_ids(results) == {results[i][1] : i \in DOMAIN results}

\* lines 280-283: the streaks of the tracks that are not in this frame
ResetLostStreaks(analysis_results, in_frame) ==
    [c \in DOMAIN analysis_results |->
        [analysis_results[c] EXCEPT !.current_streaks =
            [t \in DOMAIN @ |-> IF t \in in_frame THEN @[t] ELSE 0]]]

\* lines 246-283: one frame of the loop
ManualStep(results, analysis_results) ==
    ResetLostStreaks(SeeTracks(results, 1, analysis_results),
                     current_frame_track_ids(results))

\* lines 296-304
final_analysis(analysis_results) ==
    [c \in DOMAIN analysis_results |->
        [total_unique_birds |-> Cardinality(analysis_results[c].all_ids),
         longest_tracking |-> analysis_results[c].longest_tracking]]

\* lines 213-214: where cap stands when the loop begins
StartPosition(start_frame_index, total_frames) ==
    IF start_frame_index > 0 /\ start_frame_index < total_frames
    THEN start_frame_index
    ELSE 0

\* lines 237-240: cap.read() gives the frame at the position of cap
CapRead(position, script) ==
    position \in Frames /\ ReadableFrame(position, script[position + 1].fault)

\* lines 237-283: at most 30 turns, ended by the first failed read
RECURSIVE ManualLoop(_, _, _, _, _)
ManualLoop(turn, position, script, tracks, acc) ==
    IF turn >= ANALYZE_NUM_FRAMES \/ ~CapRead(position, script) THEN acc
    ELSE TheOne({ ManualLoop(turn + 1, position + 1, script, tracks, next) :
                  next \in {[read |-> Append(acc.read, position),
                             analysis_results |->
                                 ManualStep(tracks[position + 1],
                                            acc.analysis_results)]} })

\* what the handler has after its loop
NoManual ==
    [ran |-> FALSE, position |-> 0, tracks |-> <<>>, read |-> <<>>,
     report |-> <<>>]

manual_analysis(start_frame_index, script, tracks) ==
    LET position == StartPosition(start_frame_index, TotalFrames)
        done == ManualLoop(0, position, script, tracks,
                           [read |-> <<>>, analysis_results |-> <<>>])
    IN  [ran |-> TRUE, position |-> position, tracks |-> tracks,
         read |-> done.read, report |-> final_analysis(done.analysis_results)]

(***************************************************************************)
(* What the model feeds the handlers.                                      *)
(***************************************************************************)
BoxA == <<0, 0, 16, 16>>
BoxB == <<0, 0, 25, 25>>
BoxC == <<0, 0, 4, 4>>

GullA == RawDetection("seagull", BoxA, 90)
GullB == RawDetection("seagull", BoxB, 90)
TernA == RawDetection("tern", BoxA, 90)
GullSmall == RawDetection("seagull", BoxC, 90)
GullFaint == RawDetection("seagull", BoxA, 10)

\* the raw detection lists a frame of the video may give
Scenes == {<<>>, <<GullA>>, <<GullB, GullA>>, <<TernA, GullSmall, GullFaint>>}

\* wingspans.txt in centimetres
Wingspans == [c \in {"seagull"} |-> 140]

(***************************************************************************)
(* State.                                                                  *)
(***************************************************************************)
VARIABLES
    model,                \* app.py line 41: TRUE when the model was loaded
    average_wingspans_m,  \* app.py line 41: the wingspan table
    tracking_cache,       \* app.py line 21, the entry of the one video:
                          \*   [present, state]
    issued,               \* identities given out by the store since it was
                          \*   created or reset
    calls,                \* /process_frame requests handled
    last,                 \* the last request: its inputs, the cache entry
                          \*   before it and the result of the call
    steady,               \* the run of frames 0, 1, 2, ... processed in order
                          \*   from an empty store with one and the same
                          \*   single core detection: [n, det, id]
    analysis,             \* the last chunk analysis: its inputs, the store
                          \*   passed to it before and after, and its result
    threads,              \* per server thread, the /process_frame request it
                          \*   is handling: where it is and its locals
    library               \* tracking_cache when several videos are viewed:
                          \*   the dict by key, with the video of the last
                          \*   request and the dict as it was before it

vars == <<model, average_wingspans_m, tracking_cache, issued, calls, last,
          steady, analysis, threads, library>>

Absent == [present |-> FALSE, state |-> EmptyStore]

NoRequest ==
    [op |-> "none", frame_index |-> 0, reset_tracker |-> FALSE,
     status |-> 0, raw |-> <<>>, raises |-> FALSE,
     before |-> Absent, issued_before |-> {},
     res |-> Failure(EmptyStore, NoError)]

NoRun == [n |-> 0, det |-> <<>>, id |-> 0]

\* the server's request threads
Threads == {1, 2}

NoLocals ==
    [pc |-> "idle", frame_index |-> 0, dets |-> <<>>, match |-> <<>>,
     updates |-> <<>>, created |-> <<>>, next_id |-> 0]

AllIdle == [t \in Threads |-> NoLocals]

\* the video files: a file of the permanent folder or an upload of a session
\* (app.py lines 141-145); a file name may occur in several folders
Video(is_session_file, session_id, video_filename) ==
    [is_session_file |-> is_session_file, session_id |-> session_id,
     video_filename |-> video_filename]

Videos ==
    {Video(FALSE, "", "a.mp4"), Video(TRUE, "s1", "a.mp4"),
     Video(TRUE, "s2", "a.mp4"), Video(FALSE, "", "b.mp4")}

\* app.py lines 154, 155, 158, 173: the key under which a video is cached
CacheKey(video) == video.video_filename

CacheKeys == {CacheKey(v) : v \in Videos}

NoVideo == Video(FALSE, "", "")

NoLibrary ==
    [cache |-> [k \in CacheKeys |-> Absent], video |-> NoVideo,
     before |-> [k \in CacheKeys |-> Absent], status |-> 0]

NoAnalysis ==
    [op |-> "none", start_frame |-> 0, num_frames |-> 0, script |-> <<>>,
     status |-> 0, cache_before |-> Absent, initial_before |-> EmptyStore,
     initial_after |-> EmptyStore, local_after |-> EmptyStore,
     ref |-> "initial", error |-> NoError, processed |-> <<>>,
     skipped |-> <<>>, aggregated |-> NoAggregate, manual |-> NoManual]

\* the run after a request that gave res on the store entry_state
SteadyAfter(run, entry_state, frame_index, raw, raises, res) ==
    IF \/ res.error # NoError
       \/ raises
       \/ Len(raw) # 1
       \/ Len(res.tracked) # 1
    THEN NoRun
    ELSE IF ~IsCore(res.tracked[1]) THEN NoRun
    ELSE IF frame_index = 0 /\ entry_state = EmptyStore
    THEN [n |-> 1, det |-> raw,
          id |-> IF Len(res.detections) >= 1
                 THEN res.detections[1].tracked_id ELSE 0]
    ELSE IF run.n >= 1 /\ frame_index = run.n /\ raw = run.det
    THEN [run EXCEPT !.n = @ + 1]
    ELSE NoRun

Init ==
    /\ model \in BOOLEAN
    /\ average_wingspans_m = Wingspans
    /\ tracking_cache = Absent
    /\ issued = {}
    /\ calls = 0
    /\ last = NoRequest
    /\ steady = NoRun
    /\ analysis = NoAnalysis
    /\ threads = AllIdle
    /\ library = NoLibrary

(***************************************************************************)
(* process_frame_endpoint, app.py lines 132-179.                           *)
(***************************************************************************)
\* lines 154-158: the entry the call works on
EntryForCall(cache, reset_tracker) ==
    IF ~cache.present \/ reset_tracker
    THEN [present |-> TRUE, state |-> EmptyStore]
    ELSE cache

process_frame_endpoint(frame_index, reset_tracker, fault, raw, raises) ==
    /\ calls < MaxCalls
    /\ \E entry \in {EntryForCall(tracking_cache, reset_tracker)} :
       \E res \in {process_video_frame_with_tracking(model, fault, frame_index,
                      raw, raises, average_wingspans_m, entry.state)} :
          /\ calls' = calls + 1
          \* the call works on the cached object in place; line 173 stores
          \* the same object again
          /\ tracking_cache' = [present |-> TRUE, state |-> res.state]
          /\ issued' = (IF entry = tracking_cache THEN issued ELSE {})
                          \cup Range(res.created)
          /\ steady' = SteadyAfter(steady, entry.state, frame_index, raw,
                                   raises, res)
          /\ last' = [op |-> "frame", frame_index |-> frame_index,
                      reset_tracker |-> reset_tracker,
                      status |-> IF res.error = NoError THEN 200 ELSE 500,
                      raw |-> raw, raises |-> raises,
                      before |-> tracking_cache,
                      issued_before |->
                          IF entry = tracking_cache THEN issued ELSE {},
                      res |-> res]
          /\ analysis' = NoAnalysis
          /\ UNCHANGED <<model, average_wingspans_m, threads, library>>

\* a frame that the detector handles
ProcessFrame ==
    \E frame_index \in Frames, raw \in Scenes :
        process_frame_endpoint(frame_index, FALSE, "none", raw, FALSE)

\* the same with reset_tracker set (the viewer starts over at frame 0)
ProcessFrameReset ==
    \E raw \in Scenes :
        process_frame_endpoint(0, TRUE, "none", raw, FALSE)

\* a frame on which the detector raises
ProcessFrameDetectorRaises ==
    \E frame_index \in Frames :
        process_frame_endpoint(frame_index, FALSE, "none", <<>>, TRUE)

\* the video cannot be opened, or the index is past the last frame
ProcessFrameUnreadable ==
    \E reset_tracker \in BOOLEAN :
        \/ process_frame_endpoint(0, reset_tracker, "open", <<>>, FALSE)
        \/ process_frame_endpoint(TotalFrames, reset_tracker, "none", <<>>, FALSE)

\* lines 147-149: the file is not there
ProcessFrameNotFound ==
    /\ calls < MaxCalls
    /\ calls' = calls + 1
    /\ last' = [NoRequest EXCEPT !.op = "frame", !.status = 404,
                                 !.before = tracking_cache,
                                 !.issued_before = issued]
    /\ steady' = NoRun
    /\ analysis' = NoAnalysis
    /\ UNCHANGED <<model, average_wingspans_m, tracking_cache, issued, threads,
                   library>>

Next ==
    \/ ProcessFrame
    \/ ProcessFrameReset
    \/ ProcessFrameDetectorRaises
    \/ ProcessFrameUnreadable
    \/ ProcessFrameNotFound

Spec == Init /\ [][Next]_vars

(***************************************************************************)
(* Chunk analysis.  The viewer steps through the video from frame 0, and   *)
(* at any point a chunk of the same video is analysed: by /analyze_video   *)
(* (app.py lines 181-313, which passes the cached store and 30 frames) or  *)
(* by a direct call of analyze_video_chunk with another window.            *)
(***************************************************************************)
\* longest window of a direct call of analyze_video_chunk
MaxWindow == 2

ChunkScenes == {<<GullA>>, <<TernA, GullSmall, GullFaint>>}

FrameInput(raw, fault) == [raw |-> raw, raises |-> FALSE, fault |-> fault]

\* what the frames give during the analysis: one scene on the even frames,
\* one on the odd frames, and frame bad (if any) cannot be read
ChunkScript(even, odd, bad) ==
    [k \in 1 .. TotalFrames |->
        FrameInput(IF (k - 1) % 2 = 0 THEN even ELSE odd,
                   IF k - 1 = bad THEN "read" ELSE "none")]

\* app.py line 221: tracking_cache.get(video_filename, {})
initial_tracking_state(cache) ==
    IF cache.present THEN cache.state ELSE EmptyStore

analyze(openable, start_frame, num_frames, script, manual) ==
    /\ analysis.op = "none"
    /\ \E initial \in {initial_tracking_state(tracking_cache)} :
       \E r \in {analyze_video_chunk(openable, start_frame, num_frames, model,
                    script, average_wingspans_m, initial)} :
          /\ analysis' =
                [op |-> "chunk", start_frame |-> start_frame,
                 num_frames |-> num_frames, script |-> script,
                 status |-> IF r.error = NoError THEN 200 ELSE 500,
                 cache_before |-> tracking_cache,
                 initial_before |-> initial,
                 initial_after |-> r.heap.initial,
                 local_after |-> r.heap.local,
                 ref |-> r.ref, error |-> r.error,
                 processed |-> r.processed, skipped |-> r.skipped,
                 aggregated |-> r.aggregated, manual |-> manual]
          \* the cached dict is the object that was passed
          /\ tracking_cache' =
                IF tracking_cache.present
                THEN [tracking_cache EXCEPT !.state = r.heap.initial]
                ELSE tracking_cache
    /\ UNCHANGED <<model, average_wingspans_m, issued, calls, last, steady,
                   threads, library>>

\* what the tracker of the analysis may give for one frame
Shown(track_id, class_name) == <<track_id, class_name>>

TrackerScenes ==
    {<<>>, <<Shown(1, "seagull")>>, <<Shown(1, "tern")>>,
     <<Shown(2, "seagull")>>, <<Shown(1, "seagull"), Shown(2, "seagull")>>}

\* what the tracker gives during the analysis: the three scenes in turn
TrackScript(first, second, third) ==
    [k \in 1 .. TotalFrames |->
        IF (k - 1) % 3 = 0 THEN first
        ELSE IF (k - 1) % 3 = 1 THEN second ELSE third]

\* /analyze_video, app.py lines 181-313: the chunk on the cached store
\* (lines 221-231), then the loop on the handler's own capture and tracker
\* (lines 237-283), which reads neither the cache nor the result of the
\* chunk
analyze_video(start_frame_index, script, tracks) ==
    analyze(TRUE, start_frame_index, ANALYZE_NUM_FRAMES, script,
            manual_analysis(start_frame_index, script, tracks))

\* /analyze_video while the viewer runs: the tracker follows one bird
AnalyzeVideo ==
    \E start_frame \in 0 .. TotalFrames, even, odd \in ChunkScenes :
      \E bad \in {-1, start_frame + 1} :
        analyze_video(start_frame, ChunkScript(even, odd, bad),
                      TrackScript(<<Shown(1, "seagull")>>,
                                  <<Shown(1, "seagull")>>,
                                  <<Shown(1, "seagull")>>))

\* analyze_video_chunk with a short window
AnalyzeChunk ==
    \E start_frame \in 0 .. TotalFrames, num_frames \in 1 .. MaxWindow,
       even, odd \in ChunkScenes :
        analyze(TRUE, start_frame, num_frames, ChunkScript(even, odd, -1),
                NoManual)

\* the video cannot be opened
AnalyzeUnopenable ==
    analyze(FALSE, 0, ANALYZE_NUM_FRAMES, ChunkScript(<<>>, <<>>, -1),
            NoManual)

\* the viewer shows the next frame
ViewNextFrame ==
    \E raw \in Scenes :
        process_frame_endpoint(calls, FALSE, "none", raw, FALSE)

NextChunk ==
    \/ ViewNextFrame
    \/ AnalyzeVideo
    \/ AnalyzeChunk
    \/ AnalyzeUnopenable

SpecChunk == Init /\ [][NextChunk]_vars

(***************************************************************************)
(* The report of /analyze_video.  One request is made on a video of        *)
(* TotalFrames frames, from any start frame up to the length of the video; *)
(* the tracker of the analysis follows up to two birds, which come, go,    *)
(* come back and change class; one frame of the window may be unreadable.  *)
(* analyze_video_chunk is also called with shorter windows.                *)
(***************************************************************************)
AnalyzeReport ==
    \E start_frame \in 0 .. TotalFrames,
       first, second, third \in TrackerScenes :
      \E bad \in {-1, start_frame + 1} :
        analyze_video(start_frame, ChunkScript(<<GullA>>, <<GullA>>, bad),
                      TrackScript(first, second, third))

NextReport ==
    \/ AnalyzeReport
    \/ AnalyzeChunk

SpecReport == Init /\ [][NextReport]_vars

(***************************************************************************)
(* Distance estimation.  The wingspan table is whatever wingspans.txt      *)
(* gave (load_model_and_wingspans, lines 40-54): with or without the       *)
(* seagull, with or without the class that is seen, with an entry of 0.    *)
(* The viewer steps through the video; the frames show birds that grow,    *)
(* birds of a second class and a detection whose box has no width.         *)
(***************************************************************************)
BoxFlat == <<0, 0, 0, 16>>

GullFlat == RawDetection("seagull", BoxFlat, 90)
TernB == RawDetection("tern", BoxB, 90)

DistanceScenes ==
    {<<>>, <<GullA>>, <<GullB>>, <<TernA, GullFlat>>, <<TernB>>}

WingspanTables ==
    {<<>>,
     [c \in {"seagull"} |-> 140],
     [c \in {"seagull", "tern"} |-> IF c = "seagull" THEN 140 ELSE 80],
     [c \in {"seagull", "tern"} |-> IF c = "seagull" THEN 140 ELSE 0],
     [c \in {"tern"} |-> 80]}

InitDistance ==
    /\ model = TRUE
    /\ average_wingspans_m \in WingspanTables
    /\ tracking_cache = Absent
    /\ issued = {}
    /\ calls = 0
    /\ last = NoRequest
    /\ steady = NoRun
    /\ analysis = NoAnalysis
    /\ threads = AllIdle
    /\ library = NoLibrary

ShowNextFrame ==
    \E raw \in DistanceScenes :
        process_frame_endpoint(calls, FALSE, "none", raw, FALSE)

NextDistance == ShowNextFrame

SpecDistance == InitDistance /\ [][NextDistance]_vars

(***************************************************************************)
(* calculate_iou on its own: two boxes with x1 < x2 and y1 < y2 are drawn  *)
(* at the start and their IoU is computed both ways round, with the IoU of *)
(* the first box with itself.                                              *)
(***************************************************************************)
MaxCoord == 3

Boxes ==
    {<<x1, y1, x2, y2>> : x1 \in 0 .. MaxCoord, y1 \in 0 .. MaxCoord,
                          x2 \in 0 .. MaxCoord, y2 \in 0 .. MaxCoord}

ProperBoxes == {b \in Boxes : b[1] < b[3] /\ b[2] < b[4]}

InitIou ==
    /\ model = TRUE
    /\ average_wingspans_m = Wingspans
    /\ tracking_cache = Absent
    /\ issued = {}
    /\ calls = 0
    /\ steady = NoRun
    /\ analysis = NoAnalysis
    /\ threads = AllIdle
    /\ library = NoLibrary
    /\ last \in {[op |-> "boxes", box1 |-> b1, box2 |-> b2] :
                    b1 \in ProperBoxes, b2 \in ProperBoxes}

ComputeIou ==
    /\ last.op = "boxes"
    /\ last' = [op |-> "iou", box1 |-> last.box1, box2 |-> last.box2,
                ab |-> calculate_iou(last.box1, last.box2),
                ba |-> calculate_iou(last.box2, last.box1),
                aa |-> calculate_iou(last.box1, last.box1)]
    /\ UNCHANGED <<model, average_wingspans_m, tracking_cache, issued, calls,
                   steady, analysis, threads, library>>

NextIou == ComputeIou

SpecIou == InitIou /\ [][NextIou]_vars

(***************************************************************************)
(* Several videos.  /process_frame names the video by video_filename and   *)
(* is_session_file (with the session of the cookie); the file that is      *)
(* read is the one of that folder, the cache entry is the one under        *)
(* video_filename.  All the files exist; each viewer steps through its     *)
(* video as the requests come.                                             *)
(***************************************************************************)
VideoScenes == {<<>>, <<GullA>>}

\* process_frame_endpoint, app.py lines 132-179, for the video named
process_frame_request(video, frame_index, reset_tracker, raw) ==
    /\ calls < MaxCalls
    /\ \E entry \in {EntryForCall(library.cache[CacheKey(video)], reset_tracker)} :
       \E res \in {process_video_frame_with_tracking(model, "none", frame_index,
                      raw, FALSE, average_wingspans_m, entry.state)} :
          library' = [cache |-> [library.cache EXCEPT ![CacheKey(video)] =
                                    [present |-> TRUE, state |-> res.state]],
                      video |-> video,
                      before |-> library.cache,
                      status |-> IF res.error = NoError THEN 200 ELSE 500]
    /\ calls' = calls + 1
    /\ UNCHANGED <<model, average_wingspans_m, tracking_cache, issued, last,
                   steady, analysis, threads>>

ViewVideo ==
    \E video \in Videos, raw \in VideoScenes :
        process_frame_request(video, calls, FALSE, raw)

ViewVideoFromStart ==
    \E video \in Videos, raw \in VideoScenes :
        process_frame_request(video, 0, TRUE, raw)

NextVideos ==
    \/ ViewVideo
    \/ ViewVideoFromStart

SpecVideos == Init /\ [][NextVideos]_vars

(***************************************************************************)
(* Concurrent /process_frame requests.  app.py starts the server with      *)
(* app.run (line 319), which handles every request on a thread of its own, *)
(* and process_frame_endpoint takes no lock: two requests for the same     *)
(* video work on the one dict of tracking_cache, and the interpreter may   *)
(* switch threads between any two statements.  A thread is followed        *)
(* through the loops of process_video_frame_with_tracking: each loop is    *)
(* one step.  The wingspan table is empty (no wingspans file), so the      *)
(* distance step writes nothing, and no request resets the tracker.        *)
(***************************************************************************)
ConcFrames == 0 .. 1

InitConc ==
    /\ model = TRUE
    /\ average_wingspans_m = <<>>
    /\ tracking_cache = Absent
    /\ issued = {}
    /\ calls = 0
    /\ last = NoRequest
    /\ steady = NoRun
    /\ analysis = NoAnalysis
    /\ threads = AllIdle
    /\ library = NoLibrary

InFlight(t) == threads[t].pc # "idle"

\* app.py lines 154-158 and detector.py lines 151-225: the entry is made if
\* it is missing, the frame is read and its detections are classified
Begin(t) ==
    /\ ~InFlight(t)
    /\ calls < MaxCalls
    /\ \E frame_index \in ConcFrames, raw \in Scenes :
          threads' = [threads EXCEPT ![t] =
                         [NoLocals EXCEPT !.pc = "matching",
                                          !.frame_index = frame_index,
                                          !.dets = Classify(raw).list]]
    /\ calls' = calls + 1
    /\ tracking_cache' = [present |-> TRUE, state |-> tracking_cache.state]
    /\ UNCHANGED <<model, average_wingspans_m, issued, last, steady, analysis,
                   library>>

\* detector.py lines 230-271
Match(t) ==
    /\ threads[t].pc = "matching"
    /\ \E acc \in {MatchLoop(threads[t].dets, 1, threads[t].frame_index,
                      [state |-> tracking_cache.state, match |-> <<>>,
                       gap |-> <<>>, updates |-> <<>>, created |-> <<>>])} :
          /\ tracking_cache' = [tracking_cache EXCEPT !.state = acc.state]
          /\ threads' = [threads EXCEPT ![t].pc = "next_id",
                                        ![t].match = acc.match,
                                        ![t].updates = acc.updates]
    /\ UNCHANGED <<model, average_wingspans_m, issued, calls, last, steady,
                   analysis, library>>

\* detector.py lines 274-275
ReadNextId(t) ==
    /\ threads[t].pc = "next_id"
    /\ threads' = [threads EXCEPT ![t].pc = "adding",
                                  ![t].next_id = next_id(tracking_cache.state)]
    /\ UNCHANGED <<model, average_wingspans_m, tracking_cache, issued, calls,
                   last, steady, analysis, library>>

\* detector.py lines 276-292
Add(t) ==
    /\ threads[t].pc = "adding"
    /\ \E acc \in {NewLoop(threads[t].dets, 1, threads[t].frame_index,
                      threads[t].next_id,
                      [state |-> tracking_cache.state,
                       match |-> threads[t].match, gap |-> <<>>,
                       updates |-> threads[t].updates, created |-> <<>>])} :
          /\ tracking_cache' = [tracking_cache EXCEPT !.state = acc.state]
          /\ threads' = [threads EXCEPT ![t].pc = "evicting",
                                        ![t].updates = acc.updates,
                                        ![t].created = acc.created]
    /\ UNCHANGED <<model, average_wingspans_m, issued, calls, last, steady,
                   analysis, library>>

\* detector.py lines 294-304
EvictOld(t) ==
    /\ threads[t].pc = "evicting"
    /\ tracking_cache' =
          [tracking_cache EXCEPT
              !.state = Evict(@, threads[t].updates, threads[t].frame_index)]
    /\ threads' = [threads EXCEPT ![t].pc = "returning"]
    /\ UNCHANGED <<model, average_wingspans_m, issued, calls, last, steady,
                   analysis, library>>

\* detector.py lines 306-350 and app.py lines 169-179: the dict that is
\* stored at line 173 is the dict that is in the cache already
Return(t) ==
    /\ threads[t].pc = "returning"
    /\ threads' = [threads EXCEPT ![t] = NoLocals]
    /\ UNCHANGED <<model, average_wingspans_m, tracking_cache, issued, calls,
                   last, steady, analysis, library>>

NextConc ==
    \E t \in Threads :
        \/ Begin(t)
        \/ Match(t)
        \/ ReadNextId(t)
        \/ Add(t)
        \/ EvictOld(t)
        \/ Return(t)

SpecConc == InitConc /\ [][NextConc]_vars

(***************************************************************************)
(* The classifier on its own: a raw detection list is drawn at the start   *)
(* and classified once.  The lists are three runs of equal detections,     *)
(* long enough for two classes to reach the bulk threshold together.       *)
(***************************************************************************)
\* longest run of equal detections in a raw list
MaxRun == 8

UnknownA == RawDetection("unknown_bird", BoxA, 90)
TernSmall == RawDetection("tern", BoxC, 90)

RunKinds == {GullA, TernA, UnknownA, TernSmall, GullFaint}

Repeat(det, n) == [k \in 1 .. n |-> det]

ClassifierInputs ==
    {Repeat(d1, n1) \o Repeat(d2, n2) \o Repeat(d3, n3) :
        d1 \in RunKinds, n1 \in 0 .. MaxRun,
        d2 \in RunKinds, n2 \in 0 .. MaxRun,
        d3 \in RunKinds, n3 \in 0 .. MaxRun}

InitClassify ==
    /\ model = TRUE
    /\ average_wingspans_m = Wingspans
    /\ tracking_cache = Absent
    /\ issued = {}
    /\ calls = 0
    /\ steady = NoRun
    /\ analysis = NoAnalysis
    /\ threads = AllIdle
    /\ library = NoLibrary
    /\ last \in {[NoRequest EXCEPT !.op = "pending", !.raw = raw] :
                    raw \in ClassifierInputs}

\* lines 168-225 on the list drawn
ClassifyFrame ==
    /\ last.op = "pending"
    /\ \E c \in {Classify(last.raw)} :
          last' = [last EXCEPT !.op = "classified",
                               !.res = [@ EXCEPT !.tracked = c.list,
                                                 !.src = c.src]]
    /\ UNCHANGED <<model, average_wingspans_m, tracking_cache, issued, calls,
                   steady, analysis, threads, library>>

NextClassify == ClassifyFrame

SpecClassify == InitClassify /\ [][NextClassify]_vars

(***************************************************************************)
(* Frames with swarms.  The viewer steps through the video from frame 0;   *)
(* a frame shows no gull, enough gulls for a normal swarm or enough for a  *)
(* bulk swarm, with or without a small tern and a faint gull.              *)
(***************************************************************************)
SwarmScenes ==
    {Repeat(GullA, n) \o Repeat(TernSmall, s) \o Repeat(GullFaint, f) :
        n \in {0, N_SAME_FOR_SWARM, N_BULK_FOR_SWARM},
        s \in 0 .. 1, f \in 0 .. 1}

ViewSwarmFrame ==
    \E raw \in SwarmScenes :
        process_frame_endpoint(calls, FALSE, "none", raw, FALSE)

NextSwarm == ViewSwarmFrame

SpecSwarm == Init /\ [][NextSwarm]_vars

(***************************************************************************)
(* Properties.  Processed: the last request was a /process_frame request   *)
(* that succeeded; EntryState: the store that request worked on, as it was *)
(* before the call.                                                        *)
(***************************************************************************)
Processed == last.op = "frame" /\ last.status = 200

EntryState == EntryForCall(last.before, last.reset_tracker).state

MatchedIds == Range(last.res.match) \ {0}

CreatedIds == Range(last.res.created)

\* C1: every identity given to a new track is strictly greater than every
\* identity the store gave out before (no reset in between), so that an
\* identity is never used again after its track was deleted.
C1_IdentitiesNeverReused ==
    Processed =>
        /\ \A i \in CreatedIds : \A j \in last.issued_before : i > j
        /\ \A k1, k2 \in DOMAIN last.res.created :
              k1 < k2 => last.res.created[k1] < last.res.created[k2]

\* C2: within one processed frame the assignment is one-to-one: no two
\* entries of the tracked list are matched to the same track (an entry is
\* matched to at most one track by construction of match).
C2_MatchingOneToOne ==
    Processed =>
        \A k1, k2 \in DOMAIN last.res.match :
            (k1 # k2 /\ last.res.match[k1] # 0)
                => last.res.match[k1] # last.res.match[k2]

\* C5: a track last seen at frame f is eligible for a same-class detection
\* when frame f + LOOKBACK is processed, and no longer at f + LOOKBACK + 1.
\* Seen on the processed frame n: a track with n = f + LOOKBACK + 1 is
\* matched by no entry, and with n = f + LOOKBACK an entry of its class
\* that overlaps it above the threshold (the track not having been moved
\* by an earlier entry) does find a match.
C5_LookbackBoundary ==
    Processed =>
        \A i \in DOMAIN EntryState :
            LET tr == EntryState[i]
                n == last.frame_index
                same == [class |-> tr.class]
            IN  /\ Eligible(tr, same,
                            tr.last_visible_frame + TRACKING_FRAMES_TO_LOOK_BACK)
                /\ ~Eligible(tr, same,
                             tr.last_visible_frame + TRACKING_FRAMES_TO_LOOK_BACK + 1)
                /\ n = tr.last_visible_frame + TRACKING_FRAMES_TO_LOOK_BACK + 1
                      => i \notin MatchedIds
                /\ n = tr.last_visible_frame + TRACKING_FRAMES_TO_LOOK_BACK
                      => \A k \in DOMAIN last.res.tracked :
                            ( /\ last.res.tracked[k].class = tr.class
                              /\ IouAboveThreshold(
                                    calculate_iou(last.res.tracked[k].bbox, tr.bbox))
                              /\ \A j \in 1 .. (k - 1) : last.res.match[j] # i )
                            => last.res.match[k] # 0

\* a frame n on which one track last seen at n - LOOKBACK was matched while
\* another, last seen at n - LOOKBACK - 1, was passed over by an entry of
\* its class lying on it
C5_Witness ==
    /\ Processed
    /\ \E i, j \in DOMAIN EntryState :
          /\ EntryState[i].last_visible_frame
                = last.frame_index - TRACKING_FRAMES_TO_LOOK_BACK
          /\ i \in MatchedIds
          /\ EntryState[j].last_visible_frame
                = last.frame_index - TRACKING_FRAMES_TO_LOOK_BACK - 1
          /\ \E k \in DOMAIN last.res.tracked :
                /\ last.res.tracked[k].class = EntryState[j].class
                /\ last.res.tracked[k].bbox = EntryState[j].bbox
                /\ last.res.match[k] # j

\* the eviction rule by itself: after a processed frame n no track of the
\* store has n - lastVisibleFrame > LOOKBACK, the tracks found expired are
\* gone, and whatever entered the store in the frame was created in it
ExpiredAreDeleted ==
    Processed =>
        /\ tracking_cache.state = last.res.state
        /\ \A i \in DOMAIN last.res.state :
              last.frame_index - last.res.state[i].last_visible_frame
                  <= TRACKING_FRAMES_TO_LOOK_BACK
        /\ \A i \in DOMAIN EntryState :
              ( /\ last.frame_index - EntryState[i].last_visible_frame
                      > TRACKING_FRAMES_TO_LOOK_BACK
                /\ i \notin MatchedIds )
              => (i \in last.res.removed /\ i \notin DOMAIN last.res.state)
        /\ last.res.removed \cap DOMAIN last.res.state = {}
        /\ \A i \in (DOMAIN last.res.state) \ (DOMAIN EntryState) :
              /\ i \in CreatedIds
              /\ last.res.state[i].visibility_count = 1
              /\ Len(last.res.state[i].bbox_size_history) = 1
              /\ last.res.state[i].last_visible_frame = last.frame_index

\* the identities the store gave out before the last request whose tracks
\* were deleted
DeletedBefore == last.issued_before \ DOMAIN EntryState

\* C6: after a processed frame n no track of the store has
\* n - lastVisibleFrame > LOOKBACK (every track unseen for longer has been
\* deleted), and a track that was deleted is never in the store again: a
\* track being the identity it carries, no identity of a deleted track is
\* in the store after a later frame.
C6_ExpiredTracksDeleted ==
    Processed =>
        /\ \A i \in DOMAIN last.res.state :
              last.frame_index - last.res.state[i].last_visible_frame
                  <= TRACKING_FRAMES_TO_LOOK_BACK
        /\ last.res.removed \cap DOMAIN last.res.state = {}
        /\ DeletedBefore \cap DOMAIN last.res.state = {}

\* C7: after a processed frame a track of the store is live exactly when
\* it was matched or created in that frame.
C7_LiveIffTouched ==
    Processed =>
        \A i \in DOMAIN tracking_cache.state :
            tracking_cache.state[i].is_visible
                <=> (i \in MatchedIds \/ i \in CreatedIds)

\* a frame after which the store holds a matched track, a new track and a
\* track that was left untouched
C7_Witness ==
    /\ Processed
    /\ MatchedIds # {}
    /\ CreatedIds # {}
    /\ \E i \in DOMAIN tracking_cache.state :
          i \notin MatchedIds \cup CreatedIds

\* C10: from an empty store, the same single core detection on frames
\* 0 .. k-1 in order gives on every frame exactly one track in the result,
\* with one and the same identity and with visibility_count i + 1 on
\* frame i.
C10_SteadySingleTrack ==
    steady.n >= 1 =>
        /\ Processed
        /\ last.frame_index = steady.n - 1
        /\ Len(last.res.detections) = 1
        /\ last.res.detections[1].tracked_id = steady.id
        /\ last.res.detections[1].visibility_count = last.frame_index + 1
        /\ last.res.detections[1].class = steady.det[1].class
        /\ last.res.detections[1].box = steady.det[1].bbox

\* the run has reached its third frame
C10_Witness == steady.n >= 3

\* the number of entries of the tracked list that were matched to track i
TimesMatched(i) ==
    Cardinality({k \in DOMAIN last.res.match : last.res.match[k] = i})

\* the streak a track matched on frame n has after the frame, by the rule
StreakByRule(before, n) ==
    IF before.last_visible_frame = n - 1
    THEN before.visibility_count + 1 ELSE 1

\* the streak rule for the tracks that one entry of the frame matched
StreakRuleMatchedOnce ==
    Processed =>
        \A i \in MatchedIds :
            TimesMatched(i) = 1 =>
                last.res.state[i].visibility_count
                    = StreakByRule(EntryState[i], last.frame_index)

\* C11: every track matched while frame n is processed has after the frame
\* its streak of before the frame plus 1 if it was last seen on frame n - 1
\* before the frame, and the streak 1 otherwise.
C11_StreakRule ==
    Processed =>
        \A i \in MatchedIds :
            /\ i \in DOMAIN EntryState
            /\ i \in DOMAIN last.res.state
            /\ last.res.state[i].visibility_count
                  = StreakByRule(EntryState[i], last.frame_index)

Failed == last.op = "frame" /\ last.status = 500

\* C12: when process_video_frame_with_tracking fails (no model, video not
\* opened, frame not read) it returns an error that is not empty and an
\* empty detection list, and the store it was given is as it was before
\* the call.
C12_FailureLeavesStore ==
    Failed =>
        /\ last.res.error # NoError
        /\ last.res.detections = <<>>
        /\ last.res.state = EntryState
        /\ tracking_cache.state = EntryState

\* a frame that could not be read, asked for on a store that holds tracks
C12_Witness ==
    /\ Failed
    /\ model
    /\ EntryState # EmptyStore
    /\ last.res.error = "Could not read frame."

\* C14: a failure of the detector while a frame is processed is reported
\* to the caller as an error and is not taken for an empty detection list:
\* it clears no live flag, resets no streak and evicts no track.
C14_DetectorFailureReported ==
    (last.op = "frame" /\ last.raises) =>
        /\ last.res.error # NoError
        /\ last.status = 500
        /\ tracking_cache.state = EntryState

\* tracking_state as it is when the k-th entry of the tracked list is looked
\* up: the store of before the call with the updates of entries 1 .. k - 1
StoreAtEntry(k) ==
    MatchLoop(SubSeq(last.res.tracked, 1, k - 1), 1, last.frame_index,
              [state |-> EntryState, match |-> <<>>, gap |-> <<>>,
               updates |-> <<>>, created |-> <<>>]).state

\* the tracks that entry k may be matched to: same class, last seen within
\* LOOKBACK, IoU with the entry above IOU_THRESH
Candidates(k) ==
    {i \in DOMAIN StoreAtEntry(k) :
        /\ StoreAtEntry(k)[i].class = last.res.tracked[k].class
        /\ last.frame_index - StoreAtEntry(k)[i].last_visible_frame
              <= TRACKING_FRAMES_TO_LOOK_BACK
        /\ IouAboveThreshold(calculate_iou(last.res.tracked[k].bbox,
                                           StoreAtEntry(k)[i].bbox))}

\* the tracks created for entry k: the j-th unmatched entry gets created[j]
UnmatchedUpTo(k) ==
    Cardinality({j \in 1 .. k : last.res.match[j] = 0})

CreatedFor(k) ==
    IF last.res.match[k] = 0 /\ UnmatchedUpTo(k) <= Len(last.res.created)
    THEN {last.res.created[UnmatchedUpTo(k)]}
    ELSE {}

\* entry k is matched to a candidate of greatest IoU, or, there being no
\* candidate, one track is created for it with streak 1 and live
MatchedOrCreated(k) ==
    IF Candidates(k) # {}
    THEN /\ last.res.match[k] \in Candidates(k)
         /\ \A i \in Candidates(k) :
               ~IouGreater(
                   calculate_iou(last.res.tracked[k].bbox,
                                 StoreAtEntry(k)[i].bbox),
                   calculate_iou(last.res.tracked[k].bbox,
                                 StoreAtEntry(k)[last.res.match[k]].bbox))
    ELSE /\ last.res.match[k] = 0
         /\ \E i \in CreatedFor(k) :
               /\ i \in DOMAIN last.res.state
               /\ last.res.state[i].class = last.res.tracked[k].class
               /\ last.res.state[i].bbox = last.res.tracked[k].bbox
               /\ last.res.state[i].visibility_count = 1
               /\ last.res.state[i].is_visible

\* as many tracks are created as there are unmatched entries, all different
OneTrackPerUnmatched ==
    /\ Len(last.res.created) = UnmatchedUpTo(Len(last.res.match))
    /\ \A j1, j2 \in DOMAIN last.res.created :
          j1 # j2 => last.res.created[j1] # last.res.created[j2]

\* C21: each entry of the tracked list, in list order, is matched to an
\* eligible track of greatest IoU when an eligible track has IoU above
\* IOU_THRESH with it, and no track is created for it; otherwise exactly
\* one track is created for it, with a fresh identity (one the store never
\* gave out before), streak 1 and live.
C21_MatchOrCreate ==
    Processed =>
        /\ Len(last.res.match) = Len(last.res.tracked)
        /\ OneTrackPerUnmatched
        /\ \A k \in DOMAIN last.res.tracked : MatchedOrCreated(k)
        /\ \A i \in CreatedIds :
              i \notin last.issued_before /\ i \notin DOMAIN EntryState

\* the same with an identity that is new to the store as it is
MatchOrCreateInStore ==
    Processed =>
        /\ Len(last.res.match) = Len(last.res.tracked)
        /\ OneTrackPerUnmatched
        /\ \A k \in DOMAIN last.res.tracked : MatchedOrCreated(k)
        /\ \A i \in CreatedIds : i \notin DOMAIN EntryState

\* an entry was matched where two tracks were candidates, to the one that
\* the loop over the store meets last
MatchedAmongTwo ==
    /\ Processed
    /\ \E k \in DOMAIN last.res.tracked :
          /\ Cardinality(Candidates(k)) >= 2
          /\ last.res.match[k] = MaxOfSet(Candidates(k))

\* a frame in which one entry was matched and a track created for another
MatchedAndCreated ==
    /\ Processed
    /\ MatchedIds # {}
    /\ CreatedIds # {}

\* a track is created with an identity that a deleted track had
IdentityOfDeletedTrackCreated ==
    /\ Processed
    /\ CreatedIds \cap DeletedBefore # {}

\* the tracks of the store after the last request that are live
LiveTracks ==
    {i \in DOMAIN tracking_cache.state : tracking_cache.state[i].is_visible}

\* C22: the result of a successful call lists exactly the tracks that are
\* live in the store after the frame: every live track once, no identity
\* twice, no track that is not live or was deleted, and each entry with the
\* class, confidence, box and visibility_count of the stored track.
C22_ResultListsLiveTracks ==
    Processed =>
        /\ {last.res.detections[k].tracked_id : k \in DOMAIN last.res.detections}
              = LiveTracks
        /\ Len(last.res.detections) = Cardinality(LiveTracks)
        /\ \A k \in DOMAIN last.res.detections :
              LET det == last.res.detections[k]
              IN  /\ det.tracked_id \in DOMAIN tracking_cache.state
                  /\ det.tracked_id \notin last.res.removed
                  /\ det.class = tracking_cache.state[det.tracked_id].class
                  /\ det.confidence
                        = tracking_cache.state[det.tracked_id].confidence
                  /\ det.box = tracking_cache.state[det.tracked_id].bbox
                  /\ det.visibility_count
                        = tracking_cache.state[det.tracked_id].visibility_count

\* a result of two entries, for a matched track and for a new one, after a
\* frame that left a third track of the store not live
C22_Witness ==
    /\ Processed
    /\ Len(last.res.detections) >= 2
    /\ MatchedIds # {}
    /\ CreatedIds # {}
    /\ \E i \in DOMAIN tracking_cache.state : ~tracking_cache.state[i].is_visible

\* a result after a frame in which two entries matched the same track
ResultAfterDoubleMatch ==
    /\ Processed
    /\ \E i \in MatchedIds : TimesMatched(i) >= 2
    /\ Len(last.res.detections) = 1

\* the last /process_frame request ended in an error (404 or 500)
EndedInError == last.op = "frame" /\ last.status >= 400

\* C23: a /process_frame request that ends in an error leaves the
\* tracking_cache entry of the video exactly as it was before the request,
\* also when it carries reset_tracker = true or is the first request for
\* the video.
C23_ErrorLeavesCacheEntry == EndedInError => tracking_cache = last.before

\* the case that breaks it: reset_tracker on a frame that cannot be read
\* empties a store that held tracks
ResetErasesStoreOnError ==
    /\ Failed
    /\ last.reset_tracker
    /\ last.before.state # EmptyStore
    /\ tracking_cache.state = EmptyStore

\* the first request for the video fails and leaves an entry in the cache
FirstRequestFailsLeavesEntry ==
    /\ Failed
    /\ ~last.before.present
    /\ tracking_cache.present

\* without reset_tracker, an entry that was there is left as it was
ErrorLeavesEntryWithoutReset ==
    (EndedInError /\ last.before.present /\ ~last.reset_tracker)
        => tracking_cache = last.before

\* and a request for a file that is not there changes nothing
NotFoundLeavesCache ==
    (last.op = "frame" /\ last.status = 404) => tracking_cache = last.before

\* n - f for the tracks of the store after frame n and for the tracks the
\* entries of frame n were matched to
StoredAndMatchedGaps ==
    {last.frame_index - last.res.state[i].last_visible_frame :
        i \in DOMAIN last.res.state}
    \cup {last.res.gap[k] : k \in {j \in DOMAIN last.res.match :
                                      last.res.match[j] # 0}}

\* C25: for frame indices requested in any order, after every processed
\* frame n each stored track's lastVisibleFrame f has 0 <= n - f <= LOOKBACK,
\* and a detection of frame n is matched only to a track with
\* 0 <= n - f <= LOOKBACK.
C25_TracksWithinLookback ==
    Processed =>
        \A gap \in StoredAndMatchedGaps :
            0 <= gap /\ gap <= TRACKING_FRAMES_TO_LOOK_BACK

\* the case that breaks it: after a seek backward a detection is matched to
\* a track that was last seen on a later frame
MatchedToLaterFrame ==
    /\ Processed
    /\ \E k \in DOMAIN last.res.match :
          last.res.match[k] # 0 /\ last.res.gap[k] < 0

\* and a track last seen on a later frame stays in the store untouched
LaterFrameTrackKept ==
    /\ Processed
    /\ \E i \in DOMAIN last.res.state :
          /\ last.res.state[i].last_visible_frame > last.frame_index
          /\ ~last.res.state[i].is_visible

\* n - f is never above LOOKBACK, in any order of the frames
NeverBeyondLookback ==
    Processed =>
        \A gap \in StoredAndMatchedGaps : gap <= TRACKING_FRAMES_TO_LOOK_BACK

\* when no track of the store was last seen after frame n (frames asked for
\* in order, the same frame asked for again), C25 is as stated
WithinLookbackGoingForward ==
    ( /\ Processed
      /\ \A i \in DOMAIN EntryState :
            EntryState[i].last_visible_frame <= last.frame_index )
        => \A gap \in StoredAndMatchedGaps :
              0 <= gap /\ gap <= TRACKING_FRAMES_TO_LOOK_BACK

\* the same frame index processed again, the detection matched to the track
\* it made the first time
SameFrameAgain ==
    /\ Processed
    /\ \E k \in DOMAIN last.res.match :
          last.res.match[k] # 0 /\ last.res.gap[k] = 0
    /\ Len(last.res.match) = 1

\* C26: in every store state each track has the class label it was created
\* with (a new track gets the label of its entry, and no frame changes the
\* label of a track), its cumulative maximum geometric size is the maximum
\* of its size history and does not decrease from one frame to the next,
\* and its visibility streak is at least 1.
C26_TrackFieldsKept ==
    /\ \A i \in DOMAIN tracking_cache.state :
          LET tr == tracking_cache.state[i]
          IN  /\ tr.bbox_size_history # <<>>
              /\ tr.max_bbox_geometric_mean
                    = MaxOfSet(Range(tr.bbox_size_history))
              /\ tr.visibility_count >= 1
    /\ Processed =>
          /\ \A i \in (DOMAIN tracking_cache.state) \cap (DOMAIN EntryState) :
                /\ tracking_cache.state[i].class = EntryState[i].class
                /\ tracking_cache.state[i].max_bbox_geometric_mean
                      >= EntryState[i].max_bbox_geometric_mean
          /\ \A k \in DOMAIN last.res.tracked : \A i \in CreatedFor(k) :
                /\ i \notin DOMAIN EntryState
                /\ tracking_cache.state[i].class = last.res.tracked[k].class

\* after a frame the store holds a track that was matched by a detection
\* smaller than its maximum, with a history of several sizes, beside a track
\* that was not touched
C26_Witness ==
    /\ Processed
    /\ \E i \in MatchedIds :
          LET tr == tracking_cache.state[i]
          IN  /\ Len(tr.bbox_size_history) >= 2
              /\ tr.bbox_size_history[Len(tr.bbox_size_history)]
                    < tr.max_bbox_geometric_mean
              /\ tr.max_bbox_geometric_mean
                    > EntryState[i].max_bbox_geometric_mean
    /\ \E i \in DOMAIN tracking_cache.state : ~tracking_cache.state[i].is_visible

\* a track matched after a gap: its streak is back at 1 and its maximum is
\* the one of before
StreakResetKeepsMaximum ==
    /\ Processed
    /\ \E i \in MatchedIds :
          /\ EntryState[i].visibility_count >= 2
          /\ tracking_cache.state[i].visibility_count = 1
          /\ tracking_cache.state[i].max_bbox_geometric_mean
                = EntryState[i].max_bbox_geometric_mean

(***************************************************************************)
(* Properties of the classifier, stated on the raw list as the detector    *)
(* gave it (last.raw) and on the list handed to the tracker                *)
(* (last.res.tracked).                                                     *)
(***************************************************************************)
Classified == last.op = "classified"

\* core: geometric size >= 10 (width * height >= 100) and confidence >= 0.25
RawIsCore(d) ==
    /\ d.bbox_width_pixels > 0
    /\ d.bbox_height_pixels > 0
    /\ d.bbox_width_pixels * d.bbox_height_pixels
          >= MIN_BBOX_GEOMETRIC_MEAN * MIN_BBOX_GEOMETRIC_MEAN
    /\ d.confidence >= CODE_DETECTION_CONF_THRESHOLD

RawCoreCount(raw, cls) ==
    Cardinality({k \in DOMAIN raw : RawIsCore(raw[k]) /\ raw[k].class = cls})

RawClasses(raw) == {raw[k].class : k \in DOMAIN raw}

BulkClasses(raw) ==
    {c \in RawClasses(raw) :
        c # "unknown_bird" /\ RawCoreCount(raw, c) >= N_BULK_FOR_SWARM}

SwarmClasses(raw) ==
    {c \in RawClasses(raw) : RawCoreCount(raw, c) >= N_SAME_FOR_SWARM}

\* the index of the first core detection of class c
FirstCore(raw, c) ==
    CHOOSE k \in DOMAIN raw :
        /\ RawIsCore(raw[k]) /\ raw[k].class = c
        /\ \A j \in 1 .. (k - 1) : ~(RawIsCore(raw[j]) /\ raw[j].class = c)

\* the class of S whose first core detection comes first
FirstOf(raw, S) ==
    CHOOSE c \in S : \A c2 \in S : FirstCore(raw, c) <= FirstCore(raw, c2)

\* a list of raw detections as the tracker gets it, relabelled to class c
\* where relabel says so
Forwarded(raw, idx, c, relabel(_)) ==
    [k \in DOMAIN idx |->
        [bbox |-> raw[idx[k]].bbox,
         class |-> IF relabel(idx[k]) THEN c ELSE raw[idx[k]].class,
         confidence |-> raw[idx[k]].confidence]]

Plain(list) ==
    [k \in DOMAIN list |->
        [bbox |-> list[k].bbox, class |-> list[k].class,
         confidence |-> list[k].confidence]]

C9_NormalSwarmAddsToBase ==
    (Classified /\ BulkClasses(last.raw) = {}) =>
        LET raw == last.raw
            base == SortedSeq({k \in DOMAIN raw :
                        raw[k].confidence >= CODE_DETECTION_CONF_THRESHOLD})
            rest == SortedSeq({k \in DOMAIN raw : ~RawIsCore(raw[k])})
            none(k) == FALSE
            all(k) == TRUE
        IN  IF SwarmClasses(raw) = {}
            THEN Plain(last.res.tracked) = Forwarded(raw, base, NoClass, none)
            ELSE \E Y \in SwarmClasses(raw) :
                    Plain(last.res.tracked)
                        = Forwarded(raw, base, Y, none)
                             \o Forwarded(raw, rest, Y, all)

\* the entries of the tracked list that are the raw detection r
EntriesOf(r) == {k \in DOMAIN last.res.src : last.res.src[k] = r}

\* the tracks created in the frame for the raw detection r
TracksCreatedFor(r) == {k \in EntriesOf(r) : last.res.match[k] = 0}

EachRawOnce ==
    /\ \A r \in DOMAIN last.raw : Cardinality(EntriesOf(r)) <= 1
    /\ \A r \in DOMAIN last.raw : Cardinality(TracksCreatedFor(r)) <= 1
    /\ Len(last.res.created) <= Len(last.raw)

\* C24: the list handed to the tracker holds each raw detection of the
\* frame at most once in every mode (bulk swarm, normal swarm, no swarm),
\* so one raw detection creates at most one track in a frame and a frame
\* creates no more tracks than it has raw detections.
C24_EachRawDetectionOnce == Processed => EachRawOnce

\* the case that breaks it: a normal swarm and more tracks created than
\* the frame has raw detections
MoreTracksThanDetections ==
    /\ Processed
    /\ BulkClasses(last.raw) = {}
    /\ SwarmClasses(last.raw) # {}
    /\ Len(last.res.created) > Len(last.raw)

\* in a bulk swarm and without a swarm each raw detection is there once
EachRawOnceOutsideNormalSwarm ==
    (Processed /\ (BulkClasses(last.raw) # {} \/ SwarmClasses(last.raw) = {}))
        => EachRawOnce

\* and so it is in a normal swarm in which no detection is both confident
\* and small
EachRawOnceWithoutSmallConfident ==
    ( /\ Processed
      /\ \A r \in DOMAIN last.raw :
            last.raw[r].confidence >= CODE_DETECTION_CONF_THRESHOLD
                => RawIsCore(last.raw[r]) )
        => EachRawOnce

\* frames of the three modes have been processed
BulkSwarmProcessed ==
    Processed /\ BulkClasses(last.raw) # {} /\ Len(last.res.tracked) > N_BULK_FOR_SWARM

NormalSwarmProcessed ==
    /\ Processed
    /\ BulkClasses(last.raw) = {}
    /\ SwarmClasses(last.raw) # {}
    /\ Len(last.res.tracked) = N_SAME_FOR_SWARM + 1
    /\ Len(last.raw) = N_SAME_FOR_SWARM + 1

(***************************************************************************)
(* Properties of the chunk analysis.                                       *)
(***************************************************************************)
Analysed == analysis.op = "chunk"

\* C3: analyze_video_chunk never changes the store passed to it as
\* initial_tracking_state: the object is after the call as it was before
\* (and so is the cache entry it came from), and the frames of the chunk
\* are processed on the private copy.
C3_ChunkLeavesInitialStore ==
    Analysed =>
        /\ analysis.initial_after = analysis.initial_before
        /\ tracking_cache = analysis.cache_before
        /\ analysis.processed # <<>> => analysis.ref = "local"

\* a chunk that processed frames on a store that held tracks and left its
\* own copy different from the store it was given
C3_Witness ==
    /\ Analysed
    /\ Len(analysis.processed) >= 2
    /\ analysis.initial_before # EmptyStore
    /\ analysis.local_after # analysis.initial_before
    /\ analysis.initial_after = analysis.initial_before

\* an error occurred during the analysis: one of its own, or a frame of
\* the window that could not be processed
ChunkErrorOccurred == analysis.error # NoError \/ analysis.skipped # <<>>

\* C13: chunk failures are atomic: whenever an error occurs during
\* analyze_video_chunk (no model, video not opened, a frame of the window
\* not read) the call reports an error and returns no partial aggregate.
C13_ChunkFailureAtomic ==
    (Analysed /\ ChunkErrorOccurred) =>
        /\ analysis.error # NoError
        /\ analysis.status = 500
        /\ analysis.aggregated = NoAggregate

(***************************************************************************)
(* Properties of the distance estimate.  A distance is <<num, den>> with   *)
(* den > 0.                                                                *)
(***************************************************************************)
HasDistance(track) == track.distance_m # None

DistanceLess(d1, d2) == d1[1] * d2[2] < d2[1] * d1[2]

\* C15: in every store a track has a distance only if its class is a key
\* of the wingspan table and its maximum geometric size is positive.
C15_DistanceOnlyForTableClasses ==
    \A i \in DOMAIN tracking_cache.state :
        HasDistance(tracking_cache.state[i]) =>
            /\ tracking_cache.state[i].class \in DOMAIN average_wingspans_m
            /\ tracking_cache.state[i].max_bbox_geometric_mean > 0

\* a store with a track that has a distance, a track of a class that is
\* not in the table and a track of a table class with maximum size 0
C15_Witness ==
    /\ Processed
    /\ \E i, j, k \in DOMAIN tracking_cache.state :
          /\ HasDistance(tracking_cache.state[i])
          /\ tracking_cache.state[j].class \notin DOMAIN average_wingspans_m
          /\ ~HasDistance(tracking_cache.state[j])
          /\ tracking_cache.state[k].class \in DOMAIN average_wingspans_m
          /\ tracking_cache.state[k].max_bbox_geometric_mean = 0
          /\ ~HasDistance(tracking_cache.state[k])

\* the sizes for which the estimate is compared
MaxSize == 6

\* the estimate for a track of class c whose maximum size is size
DistanceAt(c, size) ==
    estimated_distance_m(average_wingspans_m,
        [class |-> c, max_bbox_geometric_mean |-> size])

\* the classes for which a distance is estimated
EstimatedClasses ==
    IF perform_distance_estimation(average_wingspans_m)
    THEN {c \in DOMAIN average_wingspans_m : average_wingspans_m[c] > 0}
    ELSE {}

\* C16: for a fixed class and reference configuration the estimate is
\* strictly decreasing in the maximum size (0 < s1 < s2 gives
\* distance(s2) < distance(s1)), and so the distance of a track never
\* increases while it lives: a matched track that had a distance has after
\* the frame a distance that is not greater, and a smaller one when its
\* maximum size grew.
C16_DistanceDecreasesWithSize ==
    /\ \A c \in EstimatedClasses :
          \A s1, s2 \in 1 .. MaxSize :
              s1 < s2 => DistanceLess(DistanceAt(c, s2), DistanceAt(c, s1))
    /\ Processed =>
          \A i \in MatchedIds :
              LET before == EntryState[i]
                  after == tracking_cache.state[i]
              IN  HasDistance(before) =>
                    /\ HasDistance(after)
                    /\ ~DistanceLess(before.distance_m, after.distance_m)
                    /\ after.max_bbox_geometric_mean > before.max_bbox_geometric_mean
                          => DistanceLess(after.distance_m, before.distance_m)
                    /\ after.distance_m
                          = DistanceAt(after.class, after.max_bbox_geometric_mean)

\* a track of a class other than the seagull was matched by a larger box
\* and its distance went down
C16_Witness ==
    /\ Processed
    /\ \E i \in MatchedIds :
          /\ EntryState[i].class # "seagull"
          /\ HasDistance(EntryState[i])
          /\ tracking_cache.state[i].max_bbox_geometric_mean
                > EntryState[i].max_bbox_geometric_mean
          /\ DistanceLess(tracking_cache.state[i].distance_m,
                          EntryState[i].distance_m)

(***************************************************************************)
(* Properties of calculate_iou.  An IoU is <<inter, union>>, union > 0.    *)
(***************************************************************************)
IouEqual(iou1, iou2) == iou1[1] * iou2[2] = iou2[1] * iou1[2]

\* C17: for boxes A and B with x1 < x2 and y1 < y2, calculate_iou(A, A) = 1,
\* calculate_iou(A, B) = calculate_iou(B, A) and
\* 0 <= calculate_iou(A, B) <= 1.
C17_IouProperties ==
    last.op = "iou" =>
        /\ last.aa[2] > 0 /\ last.ab[2] > 0 /\ last.ba[2] > 0
        /\ IouEqual(last.aa, <<1, 1>>)
        /\ IouEqual(last.ab, last.ba)
        /\ 0 <= last.ab[1]
        /\ last.ab[1] <= last.ab[2]

\* two different boxes that overlap in part
C17_Witness ==
    /\ last.op = "iou"
    /\ last.box1 # last.box2
    /\ 0 < last.ab[1]
    /\ last.ab[1] < last.ab[2]

(***************************************************************************)
(* Properties of several videos.                                           *)
(***************************************************************************)
\* the Track Store the handler keeps for a video
StoreOf(cache, video) == cache[CacheKey(video)]

\* C18: different videos are independent: a request for one video leaves
\* the Track Store of every other video as it was, also when the videos are
\* a permanent file and an upload, or uploads of two sessions, of the same
\* file name.
C18_VideosIndependent ==
    library.video # NoVideo =>
        \A other \in Videos \ {library.video} :
            StoreOf(library.cache, other) = StoreOf(library.before, other)

\* a request for the permanent a.mp4 has changed the store that the upload
\* a.mp4 of session s1 is viewed with
SharedFileName ==
    /\ library.video = Video(FALSE, "", "a.mp4")
    /\ StoreOf(library.cache, Video(TRUE, "s1", "a.mp4"))
          # StoreOf(library.before, Video(TRUE, "s1", "a.mp4"))
    /\ StoreOf(library.before, Video(TRUE, "s1", "a.mp4")).state # EmptyStore

\* videos of different file names do not touch each other's store
DifferentNamesIndependent ==
    library.video # NoVideo =>
        \A other \in Videos :
            other.video_filename # library.video.video_filename =>
                StoreOf(library.cache, other) = StoreOf(library.before, other)

(***************************************************************************)
(* Properties of the report of /analyze_video (SpecReport).                *)
(***************************************************************************)
\* the handler answered with the report of its loop (line 306)
Reported == analysis.manual.ran /\ analysis.status = 200

\* track_id is in the k-th frame the loop processed, with that class
SeenWith(track_id, class_name, k) ==
    \E i \in DOMAIN analysis.manual.tracks[analysis.manual.read[k] + 1] :
        analysis.manual.tracks[analysis.manual.read[k] + 1][i]
            = <<track_id, class_name>>

ProcessedTurns == DOMAIN analysis.manual.read

IdentitiesSeen(class_name) ==
    {track_id \in 1 .. 2 : \E k \in ProcessedTurns :
                              SeenWith(track_id, class_name, k)}

ClassesSeen == {c \in {"seagull", "tern"} : IdentitiesSeen(c) # {}}

\* the greatest number of consecutive processed frames in which track_id
\* was seen with the class
LongestRun(track_id, class_name) ==
    MaxOfSet({0} \cup
        {n \in 1 .. Len(analysis.manual.read) :
            \E k \in n .. Len(analysis.manual.read) :
                \A j \in (k - n + 1) .. k :
                    SeenWith(track_id, class_name, j)})

ReportAsClaimed ==
    /\ DOMAIN analysis.manual.report = ClassesSeen
    /\ \A c \in ClassesSeen :
          /\ analysis.manual.report[c].total_unique_birds
                = Cardinality(IdentitiesSeen(c))
          /\ analysis.manual.report[c].longest_tracking.frames
                = MaxOfSet({LongestRun(t, c) : t \in IdentitiesSeen(c)})
          /\ analysis.manual.report[c].longest_tracking.track_id
                \in IdentitiesSeen(c)
          /\ LongestRun(analysis.manual.report[c].longest_tracking.track_id, c)
                = analysis.manual.report[c].longest_tracking.frames

\* C19: for every class the report's total unique count is the number of
\* distinct identities seen with that class in the window, and its longest
\* streak is the greatest number of consecutive processed frames in which
\* one identity was seen with that class, with an identity that achieved it.
C19_ReportStatistics == Reported => ReportAsClaimed

\* the case that breaks it: an identity seen with one class, then with
\* another, then with the first again
ChangesClass(track_id) ==
    \E k1, k2 \in ProcessedTurns, c1, c2 \in {"seagull", "tern"} :
        c1 # c2 /\ SeenWith(track_id, c1, k1) /\ SeenWith(track_id, c2, k2)

ClassChangeCounted ==
    /\ Reported
    /\ ChangesClass(1)
    /\ ~ReportAsClaimed

\* when every identity keeps its class, the report is as C19 says
ReportWhenClassesKept ==
    (Reported /\ ~ChangesClass(1) /\ ~ChangesClass(2)) => ReportAsClaimed

\* the counts of distinct identities are as C19 says in every case
UniqueCountsAsClaimed ==
    Reported =>
        /\ DOMAIN analysis.manual.report = ClassesSeen
        /\ \A c \in ClassesSeen :
              analysis.manual.report[c].total_unique_birds
                  = Cardinality(IdentitiesSeen(c))

\* a streak was broken by an absence and begun again
StreakBrokenAndResumed ==
    /\ Reported
    /\ ~ChangesClass(1) /\ ~ChangesClass(2)
    /\ \E k \in ProcessedTurns :
          /\ k + 2 \in ProcessedTurns
          /\ SeenWith(1, "seagull", k)
          /\ \A c \in {"seagull", "tern"} : ~SeenWith(1, c, k + 1)
          /\ SeenWith(1, "seagull", k + 2)

\* the frame indices s, s + 1, ..., min(s + w, T) - 1
WindowFrames(s, w, T) ==
    [k \in 1 .. Max(0, Min(s + w, T) - s) |-> s + k - 1]

AllReadable == \A k \in DOMAIN analysis.script : analysis.script[k].fault = "none"

\* C20: a chunk analysis with start frame s and window w on a video of T
\* frames processes exactly the frames s, s + 1, ..., min(s + w, T) - 1,
\* each once and in increasing order, and no frame at all when s >= T.
C20_FramesOfWindow ==
    (Analysed /\ analysis.error = NoError /\ AllReadable) =>
        /\ analysis.processed
              = WindowFrames(analysis.start_frame, analysis.num_frames,
                             TotalFrames)
        /\ analysis.manual.ran =>
              analysis.manual.read
                  = WindowFrames(analysis.start_frame, ANALYZE_NUM_FRAMES,
                                 TotalFrames)

\* the case that breaks it: the start frame is not below the length of the
\* video and the report is made from the frames at the beginning
StartBeyondEnd ==
    /\ Reported
    /\ analysis.start_frame >= TotalFrames
    /\ analysis.processed = <<>>
    /\ analysis.manual.read = WindowFrames(0, ANALYZE_NUM_FRAMES, TotalFrames)
    /\ analysis.manual.report # <<>>

\* analyze_video_chunk itself keeps to the window, whatever the start frame
ChunkKeepsToWindow ==
    (Analysed /\ analysis.error = NoError /\ AllReadable) =>
        analysis.processed
            = WindowFrames(analysis.start_frame, analysis.num_frames,
                           TotalFrames)

\* and so does the loop of the handler when the start frame is in the video
LoopKeepsToWindowFromInside ==
    (Reported /\ AllReadable /\ analysis.start_frame < TotalFrames) =>
        analysis.manual.read
            = WindowFrames(analysis.start_frame, ANALYZE_NUM_FRAMES,
                           TotalFrames)

\* the window ends before the video does
WindowEndsFirst ==
    /\ Analysed /\ analysis.error = NoError
    /\ analysis.start_frame + analysis.num_frames < TotalFrames
    /\ Len(analysis.processed) = analysis.num_frames

\* an unreadable frame of the window: analyze_video_chunk goes on after it,
\* the loop of the handler stops at it
UnreadableFrameInWindow ==
    /\ Reported
    /\ analysis.skipped # <<>>
    /\ \E k \in DOMAIN analysis.processed :
          analysis.processed[k] > analysis.skipped[1]
    /\ \A k \in DOMAIN analysis.manual.read :
          analysis.manual.read[k] < analysis.skipped[1]

(***************************************************************************)
(* Properties of concurrent requests.                                      *)
(***************************************************************************)
\* C4: at most one Frame Processor call for the video is in flight at any
\* time: the requests that are handled concurrently are serialized.
C4_OneCallInFlight ==
    \A t1, t2 \in Threads : (InFlight(t1) /\ InFlight(t2)) => t1 = t2

\* two calls in flight have computed the same next identity, and each has a
\* detection to make a track for
SameNextIdentity ==
    \E t1, t2 \in Threads :
        /\ t1 # t2
        /\ threads[t1].pc = "adding" /\ threads[t2].pc = "adding"
        /\ threads[t1].next_id = threads[t2].next_id
        /\ 0 \in Range(threads[t1].match) /\ 0 \in Range(threads[t2].match)

\* both calls have made a track under the same identity, and the store
\* holds one track
TrackOverwritten ==
    /\ \A t \in Threads : threads[t].pc = "returning" /\ threads[t].created = <<1>>
    /\ Cardinality(DOMAIN tracking_cache.state) = 1

====
